---- MODULE Spec2Model ----
(***************************************************************************)
(* Manuscript compiler (kagantner/wptc).                                   *)
(*                                                                         *)
(* Two backends are modelled side by side:                                 *)
(*   "docx" : src/src/markdown_manuscript_formatter/main.py                *)
(*   "rtf"  : src/compiler.py                                              *)
(*                                                                         *)
(* Spec     : one run of compile_manuscript, step by step.                 *)
(* SpecNode : process_chapter / process_text_item called on one node, as   *)
(*            the unit tests call them.                                    *)
(* SpecBoth : the docx program and then the rtf program on the same config.*)
(* SpecFile : the docx append_file_content on the lines of one fragment.   *)
(* SpecFmt  : the inline formatters add_smart_text and convert_to_rtf as   *)
(*            pure functions of a text block.                              *)
(***************************************************************************)
EXTENDS Integers, Sequences, FiniteSets, TLC

VARIABLES
    backend,    \* "docx" | "rtf" : which program runs
    config,     \* the parsed YAML config (and how it loads)
    pc,         \* position of the run
    i,          \* compile_manuscript: number of top-level items entered
    j,          \* compile_manuscript: enumerate index in a part (chapters entered)
    f,          \* process_chapter / process_text_item: files entered
    cur,        \* chapter_data / text_data of the node being processed
    fn,         \* "process_chapter" | "process_text_item" | ""
    ret,        \* pc to continue at when the node is finished
    is_first_content_item,
    doc,        \* the output: paragraphs (docx) or written chunks (rtf), in order
    table,      \* docx: text of the word-count cell of the title-page table
    outdir,     \* does the output directory exist
    outfile,    \* "absent" | "open" | "truncated" | "complete"
    calls,      \* history of append_file_content calls
    log,        \* printed warnings and errors
    prev,       \* SpecBoth: what the other backend emitted for the same config
    text,       \* SpecFmt: the text block; SpecFile: the lines of the fragment
    runs,       \* SpecFmt: runs added by add_smart_text
    rtf,        \* SpecFmt: result of convert_to_rtf
    fpc         \* SpecFmt, SpecFile: "input" | "docx" | "rtf" ("off" elsewhere)

vars == <<backend, config, pc, i, j, f, cur, fn, ret, is_first_content_item,
          doc, table, outdir, outfile, calls, log, prev, text, runs, rtf, fpc>>

runVars == <<backend, config, pc, i, j, f, cur, fn, ret, is_first_content_item,
             doc, table, outdir, outfile, calls, log>>

fmtVars == <<text, runs, rtf, fpc>>

(***************************************************************************)
(* Bounds of the model.                                                    *)
(***************************************************************************)
MaxItems == 2
MaxChapters == 2
MaxFiles == 3
MaxPieces == 4
MaxLines == 2
MaxNextPieces == 1

(***************************************************************************)
(* The file system: fragments by path.  A line is classified the way       *)
(* append_file_content classifies its stripped form; w is the number of     *)
(* whitespace-delimited tokens of the line.                                *)
(***************************************************************************)
Line(k, t, w) == [k |-> k, t |-> t, w |-> w]

Paths == {"a.md", "b.md", "gone.md", "bad.md"}

\* open()/read() outcome per path: "notfound" raises FileNotFoundError,
\* "error" raises another exception while reading.
FStat == [p \in Paths |->
            CASE p = "gone.md" -> "notfound"
              [] p = "bad.md"  -> "error"
              [] OTHER         -> "ok"]

FS == [p \in Paths |->
         CASE p = "a.md" -> << Line("text", "a1", 20), Line("blank", "", 0),
                               Line("heading", "## Scene", 2),
                               Line("comment", "% note", 2),
                               Line("text", "a5", 21) >>
           [] p = "b.md" -> << Line("text", "b1", 100) >>
           [] OTHER      -> << >>]

(***************************************************************************)
(* Output elements.  A docx element is one paragraph of doc.paragraphs; an *)
(* rtf element is one chunk written to f_out (an empty paragraph that a    *)
(* chunk ends with is an element of its own).                               *)
(*   t, al, bold, brk, w : what is in the document (text, alignment, bold  *)
(*                         run, page break, whitespace-delimited tokens)   *)
(*   k, at               : which statement wrote it and for which outline  *)
(*                         position <<item, chapter-in-part, file, line>>  *)
(***************************************************************************)
Par(k, t, al, bold, brk, w, at) ==
    [k |-> k, t |-> t, al |-> al, bold |-> bold, brk |-> brk, w |-> w, at |-> at]

Blank(k, at) == Par(k, "", "left", FALSE, FALSE, 0, at)

PageBreak(k, at) == Par(k, "", "left", FALSE, TRUE, 0, at)

(***************************************************************************)
(* Outline nodes.  number/title/hasFile/hasFiles say whether the key is    *)
(* in the mapping.                                                         *)
(***************************************************************************)
Node(number, title, hasFile, file, hasFiles, files) ==
    [number |-> number, title |-> title, hasFile |-> hasFile, file |-> file,
     hasFiles |-> hasFiles, files |-> files]

NoNode == Node(FALSE, FALSE, FALSE, "", FALSE, << >>)

Item(type, node, content) == [type |-> type, node |-> node, content |-> content]

RECURSIVE SeqsUpTo(_, _)
SeqsUpTo(S, n) ==
    IF n = 0 THEN { << >> }
    ELSE LET shorter == SeqsUpTo(S, n - 1)
         IN  shorter \cup { Append(s, x) : s \in { q \in shorter : Len(q) = n - 1 }, x \in S }

\* Nodes given to process_chapter / process_text_item in SpecNode.
RichNodes ==
    { Node(nb, tt, hf, fl, hfs, fls) :
        nb \in BOOLEAN, tt \in BOOLEAN, hf \in BOOLEAN, fl \in Paths \cup {""},
        hfs \in BOOLEAN, fls \in SeqsUpTo(Paths, MaxFiles) }

WellFormedNode(n) ==
    /\ n.hasFile <=> n.file # ""
    /\ ~n.hasFiles => n.files = << >>

\* Nodes of the outlines compiled in Spec.
\* The chapters of a part alternate between these two; the second one writes
\* nothing at all (no heading, a missing file).
PartChapterNodes ==
    << Node(TRUE, TRUE, FALSE, "", TRUE, <<"a.md", "gone.md">>),
       Node(FALSE, FALSE, TRUE, "gone.md", FALSE, << >>) >>

PartContent(first, k) == [m \in 1..k |-> PartChapterNodes[((m + first) % 2) + 1]]

TopChapterNodes ==
    { Node(TRUE, TRUE, TRUE, "a.md", FALSE, << >>),
      Node(TRUE, FALSE, FALSE, "", FALSE, << >>),
      Node(FALSE, FALSE, FALSE, "", TRUE, <<"gone.md", "b.md">>),
      Node(FALSE, TRUE, FALSE, "", TRUE, <<"a.md", "bad.md", "a.md">>) }

TextNodes ==
    { Node(FALSE, FALSE, TRUE, "a.md", FALSE, << >>),
      Node(FALSE, FALSE, TRUE, "b.md", FALSE, << >>),
      Node(FALSE, TRUE, FALSE, "", TRUE, <<"b.md", "gone.md">>) }

Items ==
    { Item("chapter", n, << >>) : n \in TopChapterNodes }
    \cup { Item("text", n, << >>) : n \in TextNodes }
    \cup { Item("part", Node(FALSE, TRUE, FALSE, "", FALSE, << >>), PartContent(first, k)) :
             first \in {1, 2}, k \in 0..MaxChapters }
    \cup { Item("part", NoNode, << >>), Item("epigraph", NoNode, << >>) }

StoryTypes == {"novel", "short_story", "novella"}

\* status: "ok"         yaml.safe_load returns a mapping
\*         "missing"    open() raises FileNotFoundError
\*         "malformed"  yaml.safe_load raises YAMLError
\*         "notmapping" yaml.safe_load returns a value that is no mapping
\*                      (None for an empty file, a list, a scalar)
Configs ==
    { [status |-> "ok", story_type |-> st, include_title_page |-> tp, structure |-> s] :
        st \in StoryTypes, tp \in BOOLEAN, s \in SeqsUpTo(Items, MaxItems) }
    \cup { [status |-> e, story_type |-> "novel", include_title_page |-> TRUE, structure |-> << >>] :
             e \in {"missing", "malformed", "notmapping"} }

NoConfig == [status |-> "ok", story_type |-> "novel", include_title_page |-> FALSE, structure |-> << >>]

(***************************************************************************)
(* append_file_content(filepath, .): what one call adds to the output.     *)
(* at3 = <<item, chapter, file>> is the outline position of the fragment.  *)
(***************************************************************************)
\* Variant: the lines of a fragment come out last line first.
RECURSIVE DocxParagraphs_Reversed(_, _, _)
DocxParagraphs_Reversed(lines, l, at3) ==
    IF l > Len(lines) THEN << >>
    ELSE DocxParagraphs_Reversed(lines, l + 1, at3)
         \o (IF lines[l].k = "text"
             THEN << Par("body", lines[l].t, "left", FALSE, FALSE, lines[l].w, at3 \o <<l>>) >>
             ELSE << >>)

\* docx, main.py 171-186: one paragraph per stripped line that is not empty,
\* not a markdown heading and not a '%' comment.
RECURSIVE DocxParagraphs(_, _, _)
DocxParagraphs(lines, l, at3) ==
    IF l > Len(lines) THEN << >>
    ELSE (IF lines[l].k = "text"
          THEN << Par("body", lines[l].t, "left", FALSE, FALSE, lines[l].w, at3 \o <<l>>) >>
          ELSE << >>)
         \o DocxParagraphs(lines, l + 1, at3)

\* rtf, compiler.py 78-90: heading lines are dropped, the rest is joined and
\* written as one block (also when nothing is left).
RECURSIVE RtfKeptWords(_, _)
RtfKeptWords(lines, l) ==
    IF l > Len(lines) THEN 0
    ELSE (IF lines[l].k = "heading" THEN 0 ELSE lines[l].w) + RtfKeptWords(lines, l + 1)

RtfBlock(lines, at3) ==
    << Par("body", "block", "left", FALSE, FALSE, RtfKeptWords(lines, 1), at3 \o <<1>>) >>

\* Variant: a fragment that cannot be read is written as an empty one.
append_file_content_EmptyOnError(filepath, at3) ==
    IF backend = "docx"
    THEN (IF FStat[filepath] = "ok" THEN DocxParagraphs(FS[filepath], 1, at3)
          ELSE << Blank("body", at3 \o <<1>>) >>)
    ELSE RtfBlock(FS[filepath], at3)

append_file_content(filepath, at3) ==
    IF FStat[filepath] = "ok"
    THEN (IF backend = "docx" THEN DocxParagraphs(FS[filepath], 1, at3)
                              ELSE RtfBlock(FS[filepath], at3))
    ELSE << >>   \* FileNotFoundError / Exception: caught, a message is printed

AppendLog(filepath) ==
    CASE FStat[filepath] = "notfound" -> << [msg |-> "WARNING: Could not find file", arg |-> filepath] >>
      [] FStat[filepath] = "error"    -> << [msg |-> "ERROR: An error occurred reading", arg |-> filepath] >>
      [] OTHER                        -> << >>

CallRecord(filepath, at3, added) ==
    [path |-> filepath, at |-> at3, res |-> FStat[filepath],
     before |-> Len(doc), after |-> Len(doc) + Len(added)]

(***************************************************************************)
(* process_chapter: the heading.                                           *)
(***************************************************************************)
\* The values of the keys, where present.
NumberValue == "1"
TitleValue == "The Beginning"

\* sep.join(parts)
RECURSIVE Join(_, _)
Join(parts, sep) ==
    IF parts = << >> THEN ""
    ELSE IF Len(parts) = 1 THEN parts[1]
    ELSE parts[1] \o sep \o Join(Tail(parts), sep)

\* The `heading` list of process_chapter, main.py 195-199 / compiler.py 99-103.
HeadingList(node) ==
    (IF node.number THEN << "Chapter " \o NumberValue >> ELSE << >>)
    \o (IF node.title THEN << TitleValue >> ELSE << >>)

\* Variant: the title replaces the chapter number instead of following it.
HeadingText_TitleOnly(node) ==
    IF node.title THEN TitleValue ELSE Join(HeadingList(node), ": ")

\* ": ".join(heading), main.py 202 / compiler.py 106.
HeadingText(node) == Join(HeadingList(node), ": ")

HeadingWords(node) ==
    (IF node.number THEN 2 ELSE 0) + (IF node.title THEN 2 ELSE 0)

\* docx, main.py 201-208: a centered paragraph with one bold run, then an
\* empty paragraph.  rtf, compiler.py 105-110: the group {\qc\b heading}, then
\* \par\par, that is the end of the heading's paragraph and one empty one.
Heading(node, at2) ==
    IF HeadingList(node) # << >>
    THEN << Par("heading", HeadingText(node), "center", TRUE, FALSE,
                HeadingWords(node), at2 \o <<0, 1>>),
            Blank("heading_space", at2 \o <<0, 2>>) >>
    ELSE << >>

(***************************************************************************)
(* process_chapter / process_text_item: the scene break that follows file  *)
(* number k (1-based) of a `files` list of n entries.                      *)
(***************************************************************************)
\* Variant: a scene break after every file, the last one included.
SceneBreakAfter_EveryFile(k, n) == k - 1 < n

SceneBreakAfter(k, n) == k - 1 < n - 1     \* enumerate index i = k - 1

SceneBreak(at2, k) == << Par("scene", "#", "center", FALSE, FALSE, 1, at2 \o <<k + 1, 0>>) >>

(***************************************************************************)
(* create_title_page                                                       *)
(***************************************************************************)
TitlePageDocx(story_type) ==
    [n \in 1..8 |-> Blank("tp_space", <<0, 0, 0, n>>)]
    \o << Par("tp_title", "MY TEST NOVEL", "center", TRUE, FALSE, 3, <<0, 0, 0, 9>>),
          Par("tp_byline", "by\nTest Author", "center", FALSE, FALSE, 3, <<0, 0, 0, 10>>) >>
    \o (IF story_type = "novel"
        THEN << PageBreak("tp_break", <<0, 0, 0, 11>>) >>
        ELSE [n \in 1..3 |-> Blank("tp_space", <<0, 0, 0, 10 + n>>)])

TitlePageRtf ==
    << Par("tp_contact", "Test Author\n555\ntest@example.com", "left", FALSE, FALSE, 4, <<0, 0, 0, 1>>),
       Par("tp_wordcount", "Approx. 0 words", "left", FALSE, FALSE, 3, <<0, 0, 0, 2>>),
       Par("tp_title", "MY TEST NOVEL", "center", TRUE, FALSE, 3, <<0, 0, 0, 3>>),
       Par("tp_byline", "by\nTest Author", "center", FALSE, FALSE, 3, <<0, 0, 0, 4>>),
       PageBreak("tp_break", <<0, 0, 0, 5>>) >>

(***************************************************************************)
(* compile_manuscript: breaks, part title, end mark.                       *)
(***************************************************************************)
\* Variant: the short_story branch is missing.
ItemBreak_NovelOnly(n) ==
    IF ~is_first_content_item /\ (backend = "rtf" \/ config.story_type = "novel")
    THEN << PageBreak("item_break", <<n, 0, 0, 0>>) >>
    ELSE << >>

\* Variant: an item of unknown type is passed over before the break logic, so
\* it gets no break and does not count as the first content item.
ItemBreak_UnknownUncounted(n) ==
    LET known(m) == config.structure[m].type \in {"part", "chapter", "text"}
        later    == known(n) /\ \E m \in 1..n - 1 : known(m)
    IN  IF later /\ (backend = "rtf" \/ config.story_type = "novel")
        THEN << PageBreak("item_break", <<n, 0, 0, 0>>) >>
        ELSE IF later /\ config.story_type = "short_story"
        THEN << Blank("item_break", <<n, 0, 0, 0>>) >>
        ELSE << >>

\* Before top-level item n, main.py 300-305 / compiler.py 161-163.
ItemBreak(n) ==
    IF backend = "docx"
    THEN (IF ~is_first_content_item /\ config.story_type = "novel"
          THEN << PageBreak("item_break", <<n, 0, 0, 0>>) >>
          ELSE IF ~is_first_content_item /\ config.story_type = "short_story"
          THEN << Blank("item_break", <<n, 0, 0, 0>>) >>
          ELSE << >>)
    ELSE (IF ~is_first_content_item
          THEN << PageBreak("item_break", <<n, 0, 0, 0>>) >>
          ELSE << >>)

\* Variant: the break is written before the first chapter of the part too.
ChapterBreak_EveryChapter(n, m) ==
    IF backend = "rtf" \/ config.story_type = "novel"
    THEN << PageBreak("chapter_break", <<n, m, 0, 0>>) >>
    ELSE IF config.story_type = "short_story"
    THEN << Blank("chapter_break", <<n, m, 0, 0>>) >>
    ELSE << >>

\* Before chapter m (1-based) of part n, main.py 320-323 / compiler.py 176-177.
ChapterBreak(n, m) ==
    IF backend = "docx"
    THEN (IF m - 1 > 0 /\ config.story_type = "novel"
          THEN << PageBreak("chapter_break", <<n, m, 0, 0>>) >>
          ELSE IF m - 1 > 0 /\ config.story_type = "short_story"
          THEN << Blank("chapter_break", <<n, m, 0, 0>>) >>
          ELSE << >>)
    ELSE (IF m - 1 > 0
          THEN << PageBreak("chapter_break", <<n, m, 0, 0>>) >>
          ELSE << >>)

\* docx, main.py 308-314: title paragraph and one empty paragraph.
\* rtf, compiler.py 166-170: the title group, then \par\par\par.
PartTitle(item, n) ==
    LET t == IF item.node.title THEN "PART ONE" ELSE "UNTITLED PART"
    IN  IF backend = "docx"
        THEN << Par("part_title", t, "center", TRUE, FALSE, 2, <<n, 0, 0, 1>>),
                Blank("part_space", <<n, 0, 0, 2>>) >>
        ELSE << Par("part_title", t, "center", TRUE, FALSE, 2, <<n, 0, 0, 1>>),
                Blank("part_space", <<n, 0, 0, 2>>),
                Blank("part_space", <<n, 0, 0, 3>>) >>

\* Variant: the end mark without the page break before it.
EndMark_NoPageBreak(n) ==
    << Par("end", "#  #  #", "center", FALSE, FALSE, 3, <<n, 0, 0, 1>>) >>

EndMark(n) ==
    << PageBreak("end_break", <<n, 0, 0, 0>>),
       Par("end", "#  #  #", "center", FALSE, FALSE, 3, <<n, 0, 0, 1>>) >>

(***************************************************************************)
(* calculate_and_update_word_count                                         *)
(***************************************************************************)
RECURSIVE TotalWords(_)
TotalWords(d) == IF d = << >> THEN 0 ELSE d[1].w + TotalWords(Tail(d))

\* Variant: int(total_words / 100.0) * 100, the count is cut, not rounded.
RoundedWords_Truncated(total_words) == (total_words \div 100) * 100

\* int(round(total_words / 100.0)) * 100 : Python 3 round() rounds a tie to
\* the even integer.
RoundedWords(total_words) ==
    LET q == total_words \div 100
        r == total_words % 100
    IN  IF r < 50 THEN q * 100
        ELSE IF r > 50 THEN (q + 1) * 100
        ELSE IF q % 2 = 0 THEN q * 100 ELSE (q + 1) * 100

(***************************************************************************)
(* Initial states.                                                         *)
(***************************************************************************)
FmtOff == text = << >> /\ runs = << >> /\ rtf = << >> /\ fpc = "off"

NoPrev == [set |-> FALSE, backend |-> "", events |-> << >>]

RunFresh ==
    /\ i = 0 /\ j = 0 /\ f = 0
    /\ is_first_content_item = TRUE
    /\ doc = << >>
    /\ table = [state |-> "none", n |-> 0]
    /\ outdir = FALSE
    /\ outfile = "absent"
    /\ calls = << >>
    /\ log = << >>
    /\ prev = NoPrev

Init ==
    /\ backend \in {"docx", "rtf"}
    /\ config \in Configs
    /\ pc = "start"
    /\ cur = NoNode /\ fn = "" /\ ret = ""
    /\ RunFresh
    /\ FmtOff

(***************************************************************************)
(* compile_manuscript                                                      *)
(***************************************************************************)
\* main.py 257-265 / compiler.py 126-134: the config does not load.
compile_manuscript_fatal ==
    /\ pc = "start"
    /\ config.status \in {"missing", "malformed"}
    /\ log' = Append(log, [msg |-> "FATAL ERROR", arg |-> config.status])
    /\ pc' = "fatal"
    /\ UNCHANGED <<backend, config, i, j, f, cur, fn, ret, is_first_content_item,
                   doc, table, outdir, outfile, calls>>
    /\ UNCHANGED <<fmtVars, prev>>

\* main.py 267-285 / compiler.py 136-148: output directory, document.
compile_manuscript_open ==
    /\ pc = "start"
    /\ config.status = "ok"
    /\ outdir' = TRUE
    /\ outfile' = IF backend = "rtf" THEN "open" ELSE outfile
    /\ pc' = "title"
    /\ UNCHANGED <<backend, config, i, j, f, cur, fn, ret, is_first_content_item,
                   doc, table, calls, log>>
    /\ UNCHANGED <<fmtVars, prev>>

\* The config loaded, but not as a mapping: no except clause applies.
\* docx, main.py 267-272: the output directory is made, then config.get raises
\*   AttributeError before the document exists.
\* rtf, compiler.py 136-151 and 39: the output directory is made, the output
\*   file is opened and the RTF header written, then config.get raises in
\*   create_title_page; the `with` block closes the file as it is.
compile_manuscript_crash ==
    /\ pc = "start"
    /\ config.status = "notmapping"
    /\ outdir' = TRUE
    /\ outfile' = IF backend = "rtf" THEN "truncated" ELSE outfile
    /\ pc' = "crashed"
    /\ UNCHANGED <<backend, config, i, j, f, cur, fn, ret, is_first_content_item,
                   doc, table, calls, log>>
    /\ UNCHANGED <<fmtVars, prev>>

\* main.py 288-292 / compiler.py 151-153.
create_title_page ==
    /\ pc = "title"
    /\ backend = "rtf" \/ config.include_title_page
    /\ doc' = doc \o (IF backend = "docx" THEN TitlePageDocx(config.story_type)
                                          ELSE TitlePageRtf)
    /\ table' = IF backend = "docx" THEN [state |-> "placeholder", n |-> 0] ELSE table
    /\ is_first_content_item' = TRUE
    /\ pc' = "loop"
    /\ UNCHANGED <<backend, config, i, j, f, cur, fn, ret, outdir, outfile, calls, log>>
    /\ UNCHANGED <<fmtVars, prev>>

no_title_page ==
    /\ pc = "title"
    /\ backend = "docx" /\ ~config.include_title_page
    /\ is_first_content_item' = TRUE
    /\ pc' = "loop"
    /\ UNCHANGED <<backend, config, i, j, f, cur, fn, ret, doc, table, outdir,
                   outfile, calls, log>>
    /\ UNCHANGED <<fmtVars, prev>>

\* The `else` branch of the type dispatch.
UnknownType(type) ==
    IF backend = "docx" THEN type \notin {"part", "chapter", "text"}
                        ELSE type \notin {"part", "chapter"}

\* main.py 295-314 / compiler.py 156-173: a `part` item.
item_part ==
    /\ pc = "loop"
    /\ i < Len(config.structure)
    /\ config.structure[i + 1].type = "part"
    /\ i' = i + 1
    /\ doc' = doc \o ItemBreak(i + 1) \o PartTitle(config.structure[i + 1], i + 1)
    /\ is_first_content_item' = FALSE
    /\ j' = 0
    /\ pc' = "part"
    /\ UNCHANGED <<backend, config, f, cur, fn, ret, table, outdir, outfile, calls, log>>
    /\ UNCHANGED <<fmtVars, prev>>

\* main.py 318-324 / compiler.py 174-178: next chapter of the part.
part_chapter ==
    /\ pc = "part"
    /\ j < Len(config.structure[i].content)
    /\ j' = j + 1
    /\ doc' = doc \o ChapterBreak(i, j + 1)
    /\ cur' = config.structure[i].content[j + 1]
    /\ fn' = "process_chapter"
    /\ ret' = "part"
    /\ f' = 0
    /\ pc' = "chapter"
    /\ UNCHANGED <<backend, config, i, is_first_content_item, table, outdir, outfile,
                   calls, log>>
    /\ UNCHANGED <<fmtVars, prev>>

part_done ==
    /\ pc = "part"
    /\ j = Len(config.structure[i].content)
    /\ j' = 0
    /\ pc' = "loop"
    /\ UNCHANGED <<backend, config, i, f, cur, fn, ret, is_first_content_item, doc,
                   table, outdir, outfile, calls, log>>
    /\ UNCHANGED <<fmtVars, prev>>

\* main.py 326-327 / compiler.py 180-182: a top-level `chapter` item.
item_chapter ==
    /\ pc = "loop"
    /\ i < Len(config.structure)
    /\ config.structure[i + 1].type = "chapter"
    /\ i' = i + 1
    /\ doc' = doc \o ItemBreak(i + 1)
    /\ is_first_content_item' = FALSE
    /\ cur' = config.structure[i + 1].node
    /\ fn' = "process_chapter"
    /\ ret' = "loop"
    /\ f' = 0
    /\ pc' = "chapter"
    /\ UNCHANGED <<backend, config, j, table, outdir, outfile, calls, log>>
    /\ UNCHANGED <<fmtVars, prev>>

\* main.py 329-330: a top-level `text` item (docx only).
item_text ==
    /\ pc = "loop"
    /\ i < Len(config.structure)
    /\ backend = "docx"
    /\ config.structure[i + 1].type = "text"
    /\ i' = i + 1
    /\ doc' = doc \o ItemBreak(i + 1)
    /\ is_first_content_item' = FALSE
    /\ cur' = config.structure[i + 1].node
    /\ fn' = "process_text_item"
    /\ ret' = "loop"
    /\ f' = 0
    /\ pc' = "body"
    /\ UNCHANGED <<backend, config, j, table, outdir, outfile, calls, log>>
    /\ UNCHANGED <<fmtVars, prev>>

\* main.py 332-333 / compiler.py 184-185: any other type.
item_unknown ==
    /\ pc = "loop"
    /\ i < Len(config.structure)
    /\ UnknownType(config.structure[i + 1].type)
    /\ i' = i + 1
    /\ doc' = doc \o ItemBreak(i + 1)
    /\ is_first_content_item' = FALSE
    /\ log' = Append(log, [msg |-> "WARNING: Unknown structure type",
                           arg |-> config.structure[i + 1].type])
    /\ UNCHANGED <<backend, config, pc, j, f, cur, fn, ret, table, outdir, outfile, calls>>
    /\ UNCHANGED <<fmtVars, prev>>

\* main.py 335-338 / compiler.py 187-192: the end mark (rtf: footer, file closed).
compile_manuscript_end ==
    /\ pc = "loop"
    /\ i = Len(config.structure)
    /\ doc' = doc \o EndMark(i + 1)
    /\ outfile' = IF backend = "rtf" THEN "complete" ELSE outfile
    /\ pc' = IF backend = "rtf" THEN "done" ELSE "count"
    /\ UNCHANGED <<backend, config, i, j, f, cur, fn, ret, is_first_content_item,
                   table, outdir, calls, log>>
    /\ UNCHANGED <<fmtVars, prev>>

\* main.py 234-251, called at 341-342.
calculate_and_update_word_count ==
    /\ pc = "count"
    /\ config.include_title_page
    /\ table' = IF table.state = "placeholder"
                THEN [state |-> "count", n |-> RoundedWords(TotalWords(doc))]
                ELSE table
    /\ pc' = "save"
    /\ UNCHANGED <<backend, config, i, j, f, cur, fn, ret, is_first_content_item,
                   doc, outdir, outfile, calls, log>>
    /\ UNCHANGED <<fmtVars, prev>>

\* main.py 345: doc.save(output_path).
compile_manuscript_save ==
    /\ \/ pc = "save"
       \/ pc = "count" /\ ~config.include_title_page
    /\ outfile' = "complete"
    /\ pc' = "done"
    /\ UNCHANGED <<backend, config, i, j, f, cur, fn, ret, is_first_content_item,
                   doc, table, outdir, calls, log>>
    /\ UNCHANGED <<fmtVars, prev>>

(***************************************************************************)
(* process_chapter / process_text_item                                     *)
(***************************************************************************)
\* main.py 195-208 / compiler.py 99-110.
process_chapter_heading ==
    /\ pc = "chapter"
    /\ doc' = doc \o Heading(cur, <<i, j>>)
    /\ pc' = "body"
    /\ UNCHANGED <<backend, config, i, j, f, cur, fn, ret, is_first_content_item,
                   table, outdir, outfile, calls, log>>
    /\ UNCHANGED <<fmtVars, prev>>

\* Variant: the `files` list is looked at first.
BodyBranch_FilesFirst(node) ==
    IF node.hasFiles THEN "files" ELSE IF node.hasFile THEN "file" ELSE "none"

\* if 'file' in node: ... elif 'files' in node: ...
\* main.py 210-212, 223-225 / compiler.py 112-114.
BodyBranch(node) ==
    IF node.hasFile THEN "file" ELSE IF node.hasFiles THEN "files" ELSE "none"

\* main.py 210-211, 223-224 / compiler.py 112-113: the `file` key.
process_file ==
    /\ pc = "body"
    /\ BodyBranch(cur) = "file"
    /\ LET added == append_file_content(cur.file, <<i, j, 1>>)
       IN  /\ doc' = doc \o added
           /\ calls' = Append(calls, CallRecord(cur.file, <<i, j, 1>>, added))
    /\ log' = log \o AppendLog(cur.file)
    /\ pc' = ret
    /\ UNCHANGED <<backend, config, i, j, f, cur, fn, ret, is_first_content_item,
                   table, outdir, outfile>>
    /\ UNCHANGED <<fmtVars, prev>>

\* main.py 212-219, 225-232 / compiler.py 114-120: one iteration over `files`.
process_files_step ==
    /\ pc = "body"
    /\ BodyBranch(cur) = "files"
    /\ f < Len(cur.files)
    /\ f' = f + 1
    /\ LET added == append_file_content(cur.files[f + 1], <<i, j, f + 1>>)
       IN  /\ doc' = doc \o added
                         \o (IF SceneBreakAfter(f + 1, Len(cur.files))
                             THEN SceneBreak(<<i, j>>, f + 1) ELSE << >>)
           /\ calls' = Append(calls, CallRecord(cur.files[f + 1], <<i, j, f + 1>>, added))
    /\ log' = log \o AppendLog(cur.files[f + 1])
    /\ UNCHANGED <<backend, config, pc, i, j, cur, fn, ret, is_first_content_item,
                   table, outdir, outfile>>
    /\ UNCHANGED <<fmtVars, prev>>

process_files_done ==
    /\ pc = "body"
    /\ BodyBranch(cur) = "files"
    /\ f = Len(cur.files)
    /\ f' = 0
    /\ pc' = ret
    /\ UNCHANGED <<backend, config, i, j, cur, fn, ret, is_first_content_item,
                   doc, table, outdir, outfile, calls, log>>
    /\ UNCHANGED <<fmtVars, prev>>

\* Neither `file` nor `files`.
process_no_body ==
    /\ pc = "body"
    /\ BodyBranch(cur) = "none"
    /\ pc' = ret
    /\ UNCHANGED <<backend, config, i, j, f, cur, fn, ret, is_first_content_item,
                   doc, table, outdir, outfile, calls, log>>
    /\ UNCHANGED <<fmtVars, prev>>

NextNode ==
    \/ process_chapter_heading
    \/ process_file
    \/ process_files_step
    \/ process_files_done
    \/ process_no_body

Next ==
    \/ compile_manuscript_fatal
    \/ compile_manuscript_crash
    \/ compile_manuscript_open
    \/ create_title_page
    \/ no_title_page
    \/ item_part
    \/ part_chapter
    \/ part_done
    \/ item_chapter
    \/ item_text
    \/ item_unknown
    \/ compile_manuscript_end
    \/ calculate_and_update_word_count
    \/ compile_manuscript_save
    \/ process_chapter_heading
    \/ process_file
    \/ process_files_step
    \/ process_files_done
    \/ process_no_body

Spec == Init /\ [][Next]_vars

(***************************************************************************)
(* SpecNode: process_chapter(chapter_data, doc, story_type) or             *)
(* process_text_item(text_data, doc) on a fresh document.                  *)
(***************************************************************************)
InitNode ==
    /\ backend \in {"docx", "rtf"}
    /\ config = NoConfig
    /\ cur \in { n \in RichNodes : WellFormedNode(n) }
    /\ fn \in (IF backend = "docx" THEN {"process_chapter", "process_text_item"}
                                   ELSE {"process_chapter"})
    /\ pc = IF fn = "process_chapter" THEN "chapter" ELSE "body"
    /\ ret = "done"
    /\ RunFresh
    /\ FmtOff

SpecNode == InitNode /\ [][NextNode]_vars

(***************************************************************************)
(* SpecBoth: the same config and fragments compiled by the docx program    *)
(* and then by the rtf program.  What the first run emitted is kept as a   *)
(* sequence of structural events, independent of the output format.        *)
(***************************************************************************)
Event(ev, t, ref) == [ev |-> ev, t |-> t, ref |-> ref]

\* The structural events of an output, in order.  The title page is one
\* event whatever it is made of; the paragraphs (docx) or the block (rtf) of
\* one fragment are one event; the blank line that belongs to a heading or a
\* part title is part of that heading.
RECURSIVE Events(_, _)
Events(d, p) ==
    IF p > Len(d) THEN << >>
    ELSE LET e == d[p]
         IN  (CASE e.at[1] = 0 ->
                     IF p = 1 THEN << Event("title page", "", << >>) >> ELSE << >>
                [] e.k \in {"part_space", "heading_space"} -> << >>
                [] e.k = "body" ->
                     IF p > 1 /\ d[p - 1].k = "body"
                              /\ SubSeq(d[p - 1].at, 1, 3) = SubSeq(e.at, 1, 3)
                     THEN << >>
                     ELSE << Event("fragment", "", SubSeq(e.at, 1, 3)) >>
                [] e.k = "part_title" -> << Event("part title", e.t, << >>) >>
                [] e.k = "heading" -> << Event("chapter heading", e.t, << >>) >>
                [] e.k = "scene" -> << Event("scene break", "", << >>) >>
                [] e.k = "end" -> << Event("end mark", "", << >>) >>
                [] e.brk -> << Event("page break", "", << >>) >>
                [] OTHER -> << Event("spacer", "", << >>) >>)
             \o Events(d, p + 1)

\* The docx run is over; compiler.py is run on the same config_file.
compile_again ==
    /\ pc = "done"
    /\ backend = "docx"
    /\ ~prev.set
    /\ prev' = [set |-> TRUE, backend |-> backend, events |-> Events(doc, 1)]
    /\ backend' = "rtf"
    /\ pc' = "start"
    /\ cur' = NoNode /\ fn' = "" /\ ret' = ""
    /\ i' = 0 /\ j' = 0 /\ f' = 0
    /\ is_first_content_item' = TRUE
    /\ doc' = << >>
    /\ table' = [state |-> "none", n |-> 0]
    /\ outdir' = FALSE
    /\ outfile' = "absent"
    /\ calls' = << >>
    /\ log' = << >>
    /\ UNCHANGED config
    /\ UNCHANGED fmtVars

InitBoth ==
    /\ backend = "docx"
    /\ config \in Configs
    /\ pc = "start"
    /\ cur = NoNode /\ fn = "" /\ ret = ""
    /\ RunFresh
    /\ FmtOff

NextBoth == Next \/ compile_again

SpecBoth == InitBoth /\ [][NextBoth]_vars

(***************************************************************************)
(* Inline formatters.  A text block is a sequence of characters.           *)
(***************************************************************************)
Star1 == <<"*">>
Star2 == <<"*", "*">>
Star3 == <<"*", "*", "*">>
Under == <<"_">>

Pieces == {Star1, Star2, Star3, Under, <<"a">>, <<"-">>}

RECURSIVE Flatten(_)
Flatten(ss) == IF ss = << >> THEN << >> ELSE Head(ss) \o Flatten(Tail(ss))

Texts == { Flatten(ps) : ps \in SeqsUpTo(Pieces, MaxPieces) }

Drop(s, n) == SubSeq(s, n + 1, Len(s))

\* Least p >= from with s[p .. p+Len(d)-1] = d, or 0.
RECURSIVE Find(_, _, _)
Find(s, d, from) ==
    IF from + Len(d) - 1 > Len(s) THEN 0
    ELSE IF SubSeq(s, from, from + Len(d) - 1) = d THEN from
    ELSE Find(s, d, from + 1)

RECURSIVE ReplaceAll(_, _, _)
ReplaceAll(s, d, r) ==
    LET p == Find(s, d, 1)
    IN  IF p = 0 THEN s
        ELSE SubSeq(s, 1, p - 1) \o r \o ReplaceAll(Drop(s, p + Len(d) - 1), d, r)

\* Length of the match of \*{1,3} at the head of s (s starts with "*").
StarRun(s) ==
    IF Len(s) >= 3 /\ s[2] = "*" /\ s[3] = "*" THEN 3
    ELSE IF Len(s) >= 2 /\ s[2] = "*" THEN 2
    ELSE 1

\* re.split(r'(\*{1,3}|_{1})', text): text, delimiter, text, ..., text; the
\* texts between adjacent delimiters and at the ends may be empty.
RECURSIVE ReSplit(_, _)
ReSplit(s, acc) ==
    IF s = << >> THEN << acc >>
    ELSE IF Head(s) = "*"
    THEN << acc, SubSeq(s, 1, StarRun(s)) >> \o ReSplit(Drop(s, StarRun(s)), << >>)
    ELSE IF Head(s) = "_"
    THEN << acc, Under >> \o ReSplit(Tail(s), << >>)
    ELSE ReSplit(Tail(s), Append(acc, Head(s)))

\* smartypants.smartypants on the characters of the model: "--" becomes the
\* em-dash entity; html.unescape turns the entity into the character.
SmartyPants(s) == ReplaceAll(s, <<"-", "-">>, <<"&#8212;">>)

HtmlUnescape(s) == [n \in 1..Len(s) |-> IF s[n] = "&#8212;" THEN "EM DASH" ELSE s[n]]

\* Variant: only '***' switches bold.
NextBold_OnlyTriple(token, is_bold) ==
    IF token = Star3 THEN ~is_bold ELSE is_bold

\* main.py 29-35: the flags after a token.
NextBold(token, is_bold) ==
    IF token = Star3 \/ token = Star2 THEN ~is_bold ELSE is_bold

NextItalic(token, is_italic) ==
    IF token = Star3 \/ token = Star1 \/ token = Under THEN ~is_italic ELSE is_italic

\* main.py 28-42: the loop over the tokens, from token k on.
RECURSIVE AddRuns(_, _, _, _)
AddRuns(tokens, k, is_bold, is_italic) ==
    IF k > Len(tokens) THEN << >>
    ELSE LET token == tokens[k]
         IN  IF token \in {Star3, Star2, Star1, Under}
             THEN AddRuns(tokens, k + 1, NextBold(token, is_bold), NextItalic(token, is_italic))
             ELSE IF token # << >>
             THEN << [text |-> HtmlUnescape(SmartyPants(token)),
                      bold |-> is_bold, italic |-> is_italic] >>
                  \o AddRuns(tokens, k + 1, is_bold, is_italic)
             ELSE AddRuns(tokens, k + 1, is_bold, is_italic)

\* Variant: is_bold and is_italic outlive the call, so a paragraph starts with
\* the flags the paragraph before it ended with.
add_smart_text_CarryFlags(block) ==
    LET before == IF fpc = "docx" THEN ReSplit(text, << >>) ELSE << >>
        odd(S) == Cardinality({ m \in 1..Len(before) : before[m] \in S }) % 2 = 1
    IN  AddRuns(ReSplit(block, << >>), 1,
                odd({Star2, Star3}), odd({Star1, Under, Star3}))

\* main.py 15-42: the runs added to the paragraph.
add_smart_text(block) == AddRuns(ReSplit(block, << >>), 1, FALSE, FALSE)

\* compiler.py 15-17.
RECURSIVE RtfEscape(_)
RtfEscape(s) ==
    IF s = << >> THEN << >>
    ELSE (IF Head(s) \in {"\\", "{", "}"} THEN << "\\", Head(s) >> ELSE << Head(s) >>)
         \o RtfEscape(Tail(s))

\* re.sub(d(.*?)d, open \1 }, s, flags=re.DOTALL): leftmost match, shortest
\* inner text, then on from the end of the match.
RECURSIVE ReSubPair(_, _, _)
ReSubPair(s, d, open) ==
    LET a == Find(s, d, 1)
        b == IF a = 0 THEN 0 ELSE Find(s, d, a + Len(d))
    IN  IF b = 0 THEN s
        ELSE SubSeq(s, 1, a - 1) \o << open >> \o SubSeq(s, a + Len(d), b - 1) \o << "}" >>
             \o ReSubPair(Drop(s, b + Len(d) - 1), d, open)

GroupOpens == {"{\\b\\i ", "{\\b ", "{\\i "}

\* compiler.py 10-35.
convert_to_rtf(block) ==
    LET escaped == RtfEscape(block)
        t1 == ReSubPair(escaped, Star3, "{\\b\\i ")
        t2 == ReSubPair(t1, Star2, "{\\b ")
        t3 == ReSubPair(t2, Star1, "{\\i ")
        t4 == ReSubPair(t3, Under, "{\\i ")
        t5 == ReplaceAll(t4, <<"-", "-", "-">>, <<"\\emdash ">>)
    IN  ReplaceAll(t5, <<"\n">>, <<"\\par\n">>)

(***************************************************************************)
(* SpecFmt: one text block through each formatter; add_smart_text is then  *)
(* called for a next paragraph, as append_file_content does line by line.  *)
(* In SpecFmt doc keeps the paragraphs before the current one, each with   *)
(* its block and its runs.                                                 *)
(***************************************************************************)
NextBlocks == { Flatten(ps) : ps \in SeqsUpTo(Pieces, MaxNextPieces) }

InitFmt ==
    /\ backend = "docx"
    /\ config = NoConfig
    /\ pc = "fmt"
    /\ cur = NoNode /\ fn = "" /\ ret = ""
    /\ RunFresh
    /\ text \in Texts
    /\ runs = << >>
    /\ rtf = << >>
    /\ fpc = "input"

call_add_smart_text ==
    /\ fpc = "input"
    /\ runs' = add_smart_text(text)
    /\ fpc' = "docx"
    /\ UNCHANGED <<text, rtf>>
    /\ UNCHANGED <<runVars, prev>>

\* main.py 171-186: the next kept line, a new paragraph, add_smart_text again.
call_add_smart_text_next ==
    /\ pc = "fmt"
    /\ fpc = "docx"
    /\ doc = << >>
    /\ doc' = Append(doc, [block |-> text, runs |-> runs])
    /\ \E block \in NextBlocks :
          /\ text' = block
          /\ runs' = add_smart_text(block)
    /\ UNCHANGED <<backend, config, pc, i, j, f, cur, fn, ret, is_first_content_item,
                   table, outdir, outfile, calls, log, prev, rtf, fpc>>

call_convert_to_rtf ==
    /\ fpc = "input"
    /\ rtf' = convert_to_rtf(text)
    /\ fpc' = "rtf"
    /\ UNCHANGED <<text, runs>>
    /\ UNCHANGED <<runVars, prev>>

NextFmt == call_add_smart_text \/ call_add_smart_text_next \/ call_convert_to_rtf

SpecFmt == InitFmt /\ [][NextFmt]_vars

(***************************************************************************)
(* SpecFile: the docx append_file_content on a readable fragment given by  *)
(* its lines (content.split('\n')), each a sequence of characters.         *)
(***************************************************************************)
Whitespace == {" ", "\t"}

Hashes(n) == [q \in 1..n |-> "#"]

RawLines ==
    { << >>, <<" ">>, <<"a">>, <<" ", "a", " ">>, <<"a", " ", "b">>,
      <<"#", " ", "a">>, <<"#", "a">>, <<"#">>, <<"#", " ">>,
      <<" ", "#", "#", "\t", "a">>,
      Hashes(6) \o <<" ", "a">>, Hashes(7) \o <<" ", "a">>,
      <<"%", "a">>, <<" ", "%">>, <<"a", "%">>, <<"a", " ", "#", " ", "b">>,
      <<"*", "a", "*">> }

RECURSIVE LStrip(_)
LStrip(s) == IF s # << >> /\ Head(s) \in Whitespace THEN LStrip(Tail(s)) ELSE s

RECURSIVE RStrip(_)
RStrip(s) ==
    IF s # << >> /\ s[Len(s)] \in Whitespace THEN RStrip(SubSeq(s, 1, Len(s) - 1)) ELSE s

\* para_text.strip(), main.py 172.
Strip(s) == RStrip(LStrip(s))

\* Variant: every line that starts with '#' is taken for a heading.
LineKind_AnyHash(para_text) ==
    IF para_text = << >> THEN "blank"
    ELSE IF para_text[1] = "#" THEN "heading"
    ELSE IF para_text[1] = "%" THEN "comment"
    ELSE "text"

\* main.py 173-178 on the stripped line: empty, re.match(r'^#{1,6}\s'),
\* startswith('%').
LineKind(para_text) ==
    IF para_text = << >> THEN "blank"
    ELSE IF \E h \in 1..6 : /\ Len(para_text) > h
                            /\ \A q \in 1..h : para_text[q] = "#"
                            /\ para_text[h + 1] \in Whitespace
    THEN "heading"
    ELSE IF para_text[1] = "%" THEN "comment"
    ELSE "text"

\* para.text of a paragraph: the texts of its runs.
RunText(rs) == Flatten([n \in 1..Len(rs) |-> rs[n].text])

\* len(s.split())
WordsOf(s) ==
    Cardinality({ q \in 1..Len(s) : /\ s[q] \notin Whitespace
                                    /\ (q = 1 \/ s[q - 1] \in Whitespace) })

\* main.py 170-186: each line stripped, classified and, when kept, given to
\* add_smart_text.
ReadLines(raw) ==
    [l \in 1..Len(raw) |->
        LET para_text == Strip(raw[l])
            para == RunText(add_smart_text(para_text))
        IN  Line(LineKind(para_text), para, WordsOf(para))]

InitFile ==
    /\ backend = "docx"
    /\ config = NoConfig
    /\ pc = "file"
    /\ cur = NoNode /\ fn = "" /\ ret = ""
    /\ RunFresh
    /\ text \in SeqsUpTo(RawLines, MaxLines)
    /\ runs = << >>
    /\ rtf = << >>
    /\ fpc = "input"

call_append_file_content ==
    /\ pc = "file"
    /\ fpc = "input"
    /\ doc' = doc \o DocxParagraphs(ReadLines(text), 1, <<0, 0, 1>>)
    /\ fpc' = "docx"
    /\ UNCHANGED <<backend, config, pc, i, j, f, cur, fn, ret, is_first_content_item,
                   table, outdir, outfile, calls, log, prev, text, runs, rtf>>

SpecFile == InitFile /\ [][call_append_file_content]_vars

(***************************************************************************)
(* Vocabulary of the properties.                                           *)
(***************************************************************************)
IsSceneBreak(p) == p.t = "#" /\ p.al = "center"

IsEndMark(p) == p.t = "#  #  #" /\ p.al = "center" /\ ~p.bold /\ ~p.brk

IsPageBreak(p) == p.brk

IsSpacer(p) == p.t = "" /\ ~p.brk

Positions(P(_)) == { p \in 1..Len(doc) : P(doc[p]) }

\* Strict lexicographic order of outline positions.
RECURSIVE LexLess(_, _)
LexLess(a, b) ==
    IF a = << >> \/ b = << >> THEN a = << >> /\ b # << >>
    ELSE Head(a) < Head(b) \/ (Head(a) = Head(b) /\ LexLess(Tail(a), Tail(b)))

\* The fragment references of a node: which of its `file` / `files` entries
\* the outline walk reaches, by 1-based position.
NodeRefs(node) ==
    IF node.hasFile THEN {1}
    ELSE IF node.hasFiles THEN 1..Len(node.files) ELSE {}

RefPath(node, k) == IF node.hasFile THEN node.file ELSE node.files[k]

NodeTypes == IF backend = "docx" THEN {"chapter", "text"} ELSE {"chapter"}

\* <<item, chapter-in-part, file>> of every fragment reference of the outline.
OutlineRefs ==
    { <<n, 0, k>> : n \in { m \in 1..Len(config.structure) :
                              config.structure[m].type \in NodeTypes },
                    k \in 1..MaxFiles + 1 }
    \cup { <<n, m, k>> : n \in { q \in 1..Len(config.structure) :
                                   config.structure[q].type = "part" },
                         m \in 1..MaxChapters + 1, k \in 1..MaxFiles + 1 }

NodeAt(r) ==
    IF r[2] = 0 THEN config.structure[r[1]].node
    ELSE config.structure[r[1]].content[r[2]]

ExpectedRefs ==
    { r \in OutlineRefs :
        /\ r[2] = 0 \/ r[2] <= Len(config.structure[r[1]].content)
        /\ r[3] \in NodeRefs(NodeAt(r)) }

CallsAt == { calls[c].at : c \in 1..Len(calls) }

FailedCalls == { c \in 1..Len(calls) : calls[c].res # "ok" }

(***************************************************************************)
(* C1: when process_chapter / process_text_item has finished a node that   *)
(* resolves to its `files` list of n >= 1 entries, the document holds      *)
(* exactly n-1 scene breaks ('#', centered); the k-th one stands directly  *)
(* after the output of file k and directly before the output of file k+1,  *)
(* none stands before the first file's output or after the last one's.     *)
(***************************************************************************)
C1_SceneBreaksBetweenFiles ==
    (pc = "done" /\ ~cur.hasFile /\ cur.hasFiles /\ Len(cur.files) >= 1) =>
        LET n == Len(cur.files)
        IN  /\ Len(calls) = n
            /\ Cardinality(Positions(IsSceneBreak)) = n - 1
            /\ \A k \in 1..n - 1 :
                  /\ IsSceneBreak(doc[calls[k].after + 1])
                  /\ calls[k + 1].before = calls[k].after + 1
            /\ \A p \in 1..calls[1].before : ~IsSceneBreak(doc[p])
            /\ calls[n].after = Len(doc)

C1_Witness ==
    /\ pc = "done" /\ fn = "process_text_item"
    /\ cur.files = <<"a.md", "gone.md", "b.md">> /\ ~cur.hasFile
    /\ Cardinality(Positions(IsSceneBreak)) = 2

(***************************************************************************)
(* C2: in both backends a call of append_file_content on a path that is    *)
(* missing or unreadable adds nothing to the document; the run goes on:    *)
(* once it has ended, every item of the outline was visited, every         *)
(* fragment reference of the outline got its call, in outline order, and   *)
(* the end mark is written as the last element of a complete output file.  *)
(***************************************************************************)
C2_MissingFragmentSkipped ==
    /\ \A c \in FailedCalls : calls[c].after = calls[c].before
    /\ (pc = "done" /\ FailedCalls # {}) =>
          /\ i = Len(config.structure)
          /\ CallsAt = ExpectedRefs
          /\ \A c \in 1..Len(calls) :
                /\ calls[c].path = RefPath(NodeAt(calls[c].at), calls[c].at[3])
                /\ c > 1 => LexLess(calls[c - 1].at, calls[c].at)
          /\ outfile = "complete"
          /\ IsEndMark(doc[Len(doc)])

C2_Witness ==
    /\ pc = "done"
    /\ \E c \in FailedCalls : \E d \in 1..Len(calls) :
          /\ calls[c].res = "notfound"
          /\ calls[d].res = "ok"
          /\ calls[d].at[1] > calls[c].at[1]
          /\ calls[d].after > calls[d].before
    /\ \E c \in FailedCalls : calls[c].res = "error"

(***************************************************************************)
(* C3: docx, story_type novel or short_story: no break is inserted before  *)
(* the first top-level item; before every later top-level item, whatever   *)
(* its type, exactly one break is inserted, as the first element written    *)
(* for that item: a page break for novel, a blank paragraph for             *)
(* short_story.                                                            *)
(***************************************************************************)
ItemBreaksOf(n) == { p \in 1..Len(doc) : doc[p].k = "item_break" /\ doc[p].at[1] = n }

C3_BreakBeforeLaterItems ==
    (backend = "docx" /\ config.story_type \in {"novel", "short_story"}) =>
        \A n \in 1..i :
            /\ Cardinality(ItemBreaksOf(n)) = IF n = 1 THEN 0 ELSE 1
            /\ \A p \in ItemBreaksOf(n) :
                  /\ IF config.story_type = "novel"
                     THEN IsPageBreak(doc[p]) ELSE IsSpacer(doc[p])
                  /\ p > 1 => doc[p - 1].at[1] < n
                  /\ \A q \in 1..Len(doc) : (doc[q].at[1] = n /\ q # p) => q > p

C3_Witness ==
    /\ pc = "done" /\ backend = "docx" /\ config.story_type = "short_story"
    /\ Len(config.structure) = 2
    /\ config.structure[1].type = "text"
    /\ config.structure[2].type = "epigraph"
    /\ \E p \in ItemBreaksOf(2) : IsSpacer(doc[p])

(***************************************************************************)
(* C4: docx, story_type novel or short_story, for every `part` item of the *)
(* finished run: the centered bold part title and its spacer are written,  *)
(* the first chapter follows with no break, and before each later chapter  *)
(* exactly one break is written, as the first element of that chapter: a   *)
(* page break for novel, a blank paragraph for short_story.                *)
(***************************************************************************)
ChapterBreaksOf(n, m) ==
    { p \in 1..Len(doc) : doc[p].k = "chapter_break" /\ doc[p].at[1] = n /\ doc[p].at[2] = m }

PartTitlesOf(n) ==
    { p \in 1..Len(doc) : doc[p].k = "part_title" /\ doc[p].at[1] = n }

C4_BreakBeforeLaterChapters ==
    (pc = "done" /\ backend = "docx" /\ config.story_type \in {"novel", "short_story"}) =>
        \A n \in 1..Len(config.structure) :
            config.structure[n].type = "part" =>
                /\ Cardinality(PartTitlesOf(n)) = 1
                /\ \A p \in PartTitlesOf(n) :
                      /\ doc[p].al = "center" /\ doc[p].bold
                      /\ IsSpacer(doc[p + 1])
                      /\ (doc[p + 2].at[1] = n /\ doc[p + 2].at[2] = 1) =>
                            ~IsPageBreak(doc[p + 2]) /\ ~IsSpacer(doc[p + 2])
                /\ \A m \in 1..Len(config.structure[n].content) :
                      /\ Cardinality(ChapterBreaksOf(n, m)) = IF m = 1 THEN 0 ELSE 1
                      /\ \A p \in ChapterBreaksOf(n, m) :
                            /\ IF config.story_type = "novel"
                               THEN IsPageBreak(doc[p]) ELSE IsSpacer(doc[p])
                            /\ doc[p - 1].at[1] = n /\ doc[p - 1].at[2] < m
                            /\ \A q \in 1..Len(doc) :
                                  (doc[q].at[1] = n /\ doc[q].at[2] = m /\ q # p) => q > p

C4_Witness ==
    /\ pc = "done" /\ backend = "docx" /\ config.story_type = "short_story"
    /\ Len(config.structure) >= 1
    /\ config.structure[1].type = "part"
    /\ Len(config.structure[1].content) = 2
    /\ config.structure[1].content[2].hasFiles
    /\ \E p \in ChapterBreaksOf(1, 2) : IsSpacer(doc[p]) /\ doc[p + 1].k = "heading"

(***************************************************************************)
(* C5: in both backends a finished run has written, after everything the   *)
(* outline produced, exactly one page break and then exactly one centered  *)
(* end mark '#  #  #'; the end mark is the last element of the document    *)
(* and the only one.                                                       *)
(***************************************************************************)
C5_EndMarkLast ==
    pc = "done" =>
        /\ Len(doc) >= 2
        /\ IsEndMark(doc[Len(doc)])
        /\ IsPageBreak(doc[Len(doc) - 1])
        /\ Cardinality({ p \in 1..Len(doc) : doc[p].t = "#  #  #" }) = 1
        /\ Cardinality({ p \in 1..Len(doc) : doc[p].at[1] > Len(config.structure) }) = 2
        /\ i = Len(config.structure)

C5_Witness ==
    /\ pc = "done" /\ backend = "docx"
    /\ config.structure = << >> /\ ~config.include_title_page
    /\ Len(doc) = 2
    /\ IsEndMark(doc[2])

(***************************************************************************)
(* C6: docx: the finished document is in outline order.  Its elements      *)
(* follow the depth-first, left-to-right walk (top-level items, a part's   *)
(* chapters, a node's files, a file's lines) with nothing out of place     *)
(* and nothing twice; the title page, when rendered, comes first; every    *)
(* heading precedes the fragments of its own node; every kept line of      *)
(* every readable fragment the walk reaches is there exactly once with     *)
(* its text, and there is no other body paragraph; the end mark is last.   *)
(***************************************************************************)
KeptLines(path) ==
    IF FStat[path] = "ok"
    THEN { l \in 1..Len(FS[path]) : FS[path][l].k = "text" }
    ELSE {}

BodyPositions == { p \in 1..Len(doc) : doc[p].k = "body" }

C6_OutlineOrder ==
    (pc = "done" /\ backend = "docx") =>
        /\ \A p \in 1..Len(doc) - 1 : LexLess(doc[p].at, doc[p + 1].at)
        /\ config.include_title_page <=> (\E p \in 1..Len(doc) : doc[p].at[1] = 0)
        /\ config.include_title_page =>
              \E p, q \in 1..Len(doc) :
                  /\ p < q
                  /\ doc[p].t = "MY TEST NOVEL" /\ doc[q].t = "by\nTest Author"
                  /\ \A r \in 1..Len(doc) : doc[r].at[1] > 0 => q < r
        /\ \A p, q \in 1..Len(doc) :
              (doc[p].k = "heading" /\ doc[q].k = "body"
                 /\ doc[p].at[1] = doc[q].at[1] /\ doc[p].at[2] = doc[q].at[2]) => p < q
        /\ \A r \in ExpectedRefs : \A l \in KeptLines(RefPath(NodeAt(r), r[3])) :
              \E p \in BodyPositions :
                  /\ doc[p].at = r \o <<l>>
                  /\ doc[p].t = FS[RefPath(NodeAt(r), r[3])][l].t
        /\ \A p \in BodyPositions :
              /\ SubSeq(doc[p].at, 1, 3) \in ExpectedRefs
              /\ doc[p].at[4] \in KeptLines(RefPath(NodeAt(SubSeq(doc[p].at, 1, 3)), doc[p].at[3]))
        /\ IsEndMark(doc[Len(doc)])

C6_Witness ==
    /\ pc = "done" /\ backend = "docx" /\ config.include_title_page
    /\ Len(config.structure) = 2
    /\ config.structure[1].type = "part" /\ Len(config.structure[1].content) = 2
    /\ config.structure[2].type = "chapter"
    /\ config.structure[2].node.files = <<"a.md", "bad.md", "a.md">>
    /\ Cardinality(BodyPositions) = 6

(***************************************************************************)
(* C10: docx, title page rendered: once calculate_and_update_word_count    *)
(* has run, the word-count cell holds no placeholder but a count N that is *)
(* a multiple of 100 nearest to total_words, the number of                 *)
(* whitespace-delimited tokens of all paragraphs of the document body as   *)
(* finished (title, byline, headings, scene breaks and end mark            *)
(* included); halfway values go to one of the two nearest multiples.       *)
(***************************************************************************)
Distance(a, b) == IF a >= b THEN a - b ELSE b - a

C10_WitnessHalfDown ==
    /\ backend = "docx" /\ config.include_title_page /\ pc = "done"
    /\ TotalWords(doc) = 50
    /\ table = [state |-> "count", n |-> 0]

(***************************************************************************)
(* Vocabulary of the inline-formatting properties.  Tokens is the list     *)
(* re.split gives for the block: texts at the odd places, delimiter tokens *)
(* at the even places.  The n-th run comes from the n-th non-empty text.   *)
(***************************************************************************)
Tokens == ReSplit(text, << >>)

RECURSIVE TextPlacesFrom(_, _)
TextPlacesFrom(T, k) ==
    IF k > Len(T) THEN << >>
    ELSE (IF k % 2 = 1 /\ T[k] # << >> THEN << k >> ELSE << >>) \o TextPlacesFrom(T, k + 1)

TextPlaces == TextPlacesFrom(Tokens, 1)

PlacesOf(token) == { k \in 1..Len(Tokens) : Tokens[k] = token }

\* A text between an opening '**' token and its closing '**' token: the
\* '**' tokens pair up in order, so an odd number of them stands before it.
EnclosedInStar2(k) == Cardinality({ m \in PlacesOf(Star2) : m < k }) % 2 = 1

BalancedStar2 ==
    /\ Cardinality(PlacesOf(Star2)) >= 2
    /\ Cardinality(PlacesOf(Star2)) % 2 = 0

UnclosedStar2 == Cardinality(PlacesOf(Star2)) % 2 = 1

LastStar2 == CHOOSE k \in PlacesOf(Star2) : \A m \in PlacesOf(Star2) : m <= k

BoldAsEnclosed ==
    /\ Len(runs) = Len(TextPlaces)
    /\ \A n \in 1..Len(runs) : runs[n].bold = EnclosedInStar2(TextPlaces[n])

BoldAfterUnclosed ==
    /\ Len(runs) = Len(TextPlaces)
    /\ \A n \in 1..Len(runs) : TextPlaces[n] > LastStar2 => runs[n].bold

(***************************************************************************)
(* C7 as stated: add_smart_text, for every block whose '**' tokens are     *)
(* balanced: a run is bold exactly if its text is enclosed between an      *)
(* opening '**' and its closing '**'.                                      *)
(***************************************************************************)
C7_Original ==
    (fpc = "docx" /\ BalancedStar2) => BoldAsEnclosed

(***************************************************************************)
(* C7 amended: the same for every block whose '**' tokens are balanced     *)
(* and that holds no '***' token.                                          *)
(***************************************************************************)
C7_BoldInsideBalancedPairs ==
    (fpc = "docx" /\ BalancedStar2 /\ PlacesOf(Star3) = {}) => BoldAsEnclosed

C7_Witness ==
    /\ fpc = "docx" /\ BalancedStar2 /\ PlacesOf(Star3) = {}
    /\ Len(runs) = 2
    /\ ~runs[1].bold /\ runs[2].bold

LoneMarker == Len(Tokens) = 3 /\ Tokens[1] # << >> /\ Tokens[3] # << >>

C9_UnclosedMarkerLiteral ==
    (fpc = "rtf" /\ LoneMarker) =>
        /\ \A n \in 1..Len(rtf) : rtf[n] \notin GroupOpens
        /\ Find(rtf, Tokens[2], 1) > 0

\* What does hold: a lone one-character marker ('*' or '_') is left alone.
LoneSingleMarkerKept ==
    (fpc = "rtf" /\ LoneMarker /\ Len(Tokens[2]) = 1) =>
        /\ \A n \in 1..Len(rtf) : rtf[n] \notin GroupOpens
        /\ Find(rtf, Tokens[2], 1) > 0

(***************************************************************************)
(* Fatal errors of compile_manuscript.                                     *)
(***************************************************************************)
RunEnded == pc \in {"fatal", "crashed", "done"}

\* Holds in both backends: a missing or malformed config ends the run with a
\* FATAL ERROR message and nothing else done.
FatalLeavesNothing ==
    (config.status \in {"missing", "malformed"} /\ pc # "start") =>
        /\ pc = "fatal"
        /\ log = << [msg |-> "FATAL ERROR", arg |-> config.status] >>
        /\ ~outdir /\ outfile = "absent" /\ calls = << >> /\ doc = << >>

\* C11: in both backends a missing or malformed config makes
\* compile_manuscript report a fatal error and return with no output
\* directory made, no output file opened and no fragment read, and a run ends
\* without a complete output file only for such a config.
C11_OnlyFatalWithoutOutput ==
    /\ FatalLeavesNothing
    /\ (RunEnded /\ outfile # "complete") => config.status \in {"missing", "malformed"}

(***************************************************************************)
(* Items of unknown type.                                                  *)
(***************************************************************************)
UnknownItems == { n \in 1..i : config.structure[n].type \notin {"part", "chapter", "text"} }

UnknownWarnings ==
    { l \in 1..Len(log) : /\ log[l].msg = "WARNING: Unknown structure type"
                          /\ log[l].arg \notin {"part", "chapter", "text"} }

\* Does the backend and story type put a break before a later item at all.
BreaksApply == backend = "rtf" \/ config.story_type \in {"novel", "short_story"}

\* C12: a top-level item whose type is none of part / chapter / text is
\* skipped with one warning.  Nothing written carries its position except
\* the break an item without heading and body gets in its place, no fragment
\* is read for it, the run is not aborted (it ends with every item visited
\* and a complete file), and the items after it are treated as after an empty
\* item: the unknown item has used up the "first content item" exemption, so
\* the item after it gets its break.
C12_UnknownItemSkipped ==
    /\ Cardinality(UnknownWarnings) = Cardinality(UnknownItems)
    /\ \A n \in UnknownItems :
          /\ \A p \in 1..Len(doc) : doc[p].at[1] = n => doc[p].k = "item_break"
          /\ \A c \in 1..Len(calls) : calls[c].at[1] # n
          /\ Cardinality(ItemBreaksOf(n)) = IF n > 1 /\ BreaksApply THEN 1 ELSE 0
          /\ ~is_first_content_item
          /\ n + 1 <= i =>
                /\ Cardinality(ItemBreaksOf(n + 1)) = IF BreaksApply THEN 1 ELSE 0
                /\ \A p \in ItemBreaksOf(n + 1) : \A q \in 1..Len(doc) :
                      (doc[q].at[1] = n + 1 /\ q # p) => q > p
          /\ pc \notin {"fatal", "crashed"}
          /\ pc = "done" => (i = Len(config.structure) /\ outfile = "complete"
                              /\ IsEndMark(doc[Len(doc)]))

C12_Witness ==
    /\ pc = "done" /\ backend = "docx" /\ config.story_type = "novel"
    /\ Len(config.structure) = 2
    /\ config.structure[1].type = "epigraph"
    /\ config.structure[2].type = "chapter"
    /\ \E p \in ItemBreaksOf(2) : IsPageBreak(doc[p]) /\ doc[p + 1].k = "heading"
    /\ \E p \in BodyPositions : doc[p].at[1] = 2
    /\ Cardinality(UnknownWarnings) = 1

(***************************************************************************)
(* The two backends on the same config.                                    *)
(***************************************************************************)
BothDone == pc = "done" /\ prev.set /\ backend = "rtf"

\* Holds: the two programs emit the same events for a novel with a title
\* page and no `text` item (unknown types, missing fragments and empty parts
\* included).
BackendsAgreeOnNovels ==
    (/\ BothDone
     /\ config.story_type = "novel" /\ config.include_title_page
     /\ \A n \in 1..Len(config.structure) : config.structure[n].type # "text")
        => Events(doc, 1) = prev.events

\* C13: for every config with story_type novel or short_story, whatever its
\* items and its include_title_page, the rtf compile_manuscript and the docx
\* compile_manuscript emit the same ordered sequence of structural events
\* (title page or none, part titles, chapter headings, fragments, scene
\* breaks, page breaks versus spacers, end mark).
C13_BackendsInterchangeable ==
    (BothDone /\ config.story_type \in {"novel", "short_story"})
        => Events(doc, 1) = prev.events

(***************************************************************************)
(* The chapter heading.                                                    *)
(***************************************************************************)
IsHeadingStyle(p) == p.al = "center" /\ p.bold

C14_WitnessNoHeading ==
    /\ pc = "done" /\ fn = "process_chapter" /\ backend = "rtf"
    /\ ~cur.number /\ ~cur.title /\ cur.file = "b.md"
    /\ Len(doc) = 1

(***************************************************************************)
(* Line filtering of the docx append_file_content.                         *)
(***************************************************************************)
IsBlankChar(c) == c = " " \/ c = "\t"

\* The line without its leading and trailing white space.
StrippedOf(raw) ==
    LET inked == { q \in 1..Len(raw) : ~IsBlankChar(raw[q]) }
    IN  IF inked = {} THEN << >>
        ELSE LET a == CHOOSE q \in inked : \A r \in inked : q <= r
                 b == CHOOSE q \in inked : \A r \in inked : q >= r
             IN  SubSeq(raw, a, b)

\* 1 to 6 '#' and then white space.
IsMarkdownHeading(t) ==
    \E h \in 1..6 : Len(t) > h /\ SubSeq(t, 1, h) = Hashes(h) /\ IsBlankChar(t[h + 1])

IsKeptLine(raw) ==
    LET t == StrippedOf(raw)
    IN  t # << >> /\ ~IsMarkdownHeading(t) /\ t[1] # "%"

HasInlineMarker(t) == \E q \in 1..Len(t) : t[q] \in {"*", "_"}

\* C15: docx, a readable fragment: append_file_content adds exactly one
\* paragraph for each line that, stripped, is not empty, is not a markdown
\* heading and does not start with '%', in file order, and none for any
\* other line; the paragraph is made from the stripped line (and reads as the
\* stripped line wherever that has no inline marker to interpret).
C15_LinesFiltered ==
    (pc = "file" /\ fpc = "docx") =>
        LET kept == { l \in 1..Len(text) : IsKeptLine(text[l]) }
        IN  /\ Len(doc) = Cardinality(kept)
            /\ { doc[p].at[4] : p \in 1..Len(doc) } = kept
            /\ \A p \in 1..Len(doc) - 1 : doc[p].at[4] < doc[p + 1].at[4]
            /\ \A p \in 1..Len(doc) :
                  LET t == StrippedOf(text[doc[p].at[4]])
                  IN  /\ ~HasInlineMarker(t) => doc[p].t = t
                      /\ doc[p].k = "body"

C15_Witness ==
    /\ pc = "file" /\ fpc = "docx"
    /\ text = << <<" ", "#", "#", "\t", "a">>, <<" ", "a", " ">> >>
    /\ Len(doc) = 1
    /\ doc[1].t = <<"a">>

\* A line of seven '#' is no heading and is kept.
C15_WitnessSevenHashes ==
    /\ pc = "file" /\ fpc = "docx"
    /\ text = << Hashes(7) \o <<" ", "a">>, <<"%", "a">> >>
    /\ Len(doc) = 1

(***************************************************************************)
(* add_smart_text as a toggle machine.                                     *)
(***************************************************************************)
\* Is the number of tokens of the set S before place k of the block odd.
OddBefore(S, k) == Cardinality({ m \in 1..k - 1 : Tokens[m] \in S }) % 2 = 1

HeadingLength ==
    IF fn = "process_chapter" /\ (cur.number \/ cur.title) THEN 2 ELSE 0

\* C17: when process_chapter / process_text_item has finished a node, in
\* either backend: with both `file` and `files` on the node, append_file_content
\* was called once, on `file`; no entry of `files` was read, no scene break
\* was written, and the output is the heading (if any) and then what that one
\* call added.  With neither key, no fragment was read and the output is the
\* heading alone (nothing, for a text node or a chapter without number and
\* title).
C17_AtMostOneBodyField ==
    pc = "done" =>
        /\ (cur.hasFile /\ cur.hasFiles) =>
              /\ Len(calls) = 1
              /\ calls[1].path = cur.file
              /\ calls[1].before = HeadingLength
              /\ calls[1].after = Len(doc)
              /\ Positions(IsSceneBreak) = {}
        /\ (~cur.hasFile /\ ~cur.hasFiles) =>
              /\ calls = << >>
              /\ Len(doc) = HeadingLength
              /\ Positions(IsSceneBreak) = {}

C17_Witness ==
    /\ pc = "done" /\ backend = "docx" /\ fn = "process_text_item"
    /\ cur.hasFile /\ cur.file = "a.md"
    /\ cur.hasFiles /\ cur.files = <<"b.md", "a.md", "b.md">>
    /\ Len(calls) = 1
    /\ Len(doc) = 2 /\ doc[1].t = "a1" /\ doc[2].t = "a5"

\* A chapter with a title and neither key: the heading and nothing else.
C17_WitnessNeither ==
    /\ pc = "done" /\ backend = "rtf" /\ fn = "process_chapter"
    /\ ~cur.hasFile /\ ~cur.hasFiles /\ cur.title /\ ~cur.number
    /\ Len(doc) = 2 /\ doc[1].t = "The Beginning"

====
